---- MODULE Spec2Model ----
(***************************************************************************)
(* A model of tarantool/tornado.py: one Connection multiplexing requests   *)
(* of several caller coroutines over one stream, its Reader and Writer     *)
(* loops, the exclusion lock, and the Schema cache.                        *)
(*                                                                         *)
(* Scheduling is Tornado's: a coroutine runs without interruption from one *)
(* suspension point to the next, so every action below is the code between *)
(* two `yield`s.  A `yield` on a future that is already done (a free lock, *)
(* a coroutine that returned without suspending) does not suspend; a       *)
(* coroutine waiting on a future resumes in a later loop iteration than    *)
(* the one that resolved the future.  Future.cancel() and the cancel() of  *)
(* the two loop tasks are taken at their documented meaning: the future is *)
(* cancelled, the loop stops at its suspension point.                      *)
(***************************************************************************)
EXTENDS Integers, Sequences, FiniteSets, TLC

\* ---------------------------------------------------------------- bounds
NCallers == 2            \* caller coroutines
MaxOps == 3              \* public operations started in one behaviour of Spec
MaxFrames == 2           \* response frames the server emits in one behaviour of Spec
MaxEof == 1              \* end-of-stream events in one behaviour
DispatchOps == 2         \* the same two budgets in DispatchSpec ...
DispatchFrames == 3
SchemaOps == 4           \* ... in SchemaSpec ...
SchemaFrames == 2
FaultOps == 2            \* ... and in FaultSpec
FaultFrames == 1
MaxStreamFrames == 2     \* complete frames of a byte stream in FrameSpec
StallOps == 3            \* ... and in StallSpec
StallFrames == 1
ConnectOps == 3          \* ... and in ConnectSpec
ConnectFrames == 1
WrapOps == 5             \* ... and in WrapSpec
WrapFrames == 3
SyncCeiling == 3         \* generate_sync's ceiling (10000000), scaled down
RETRY_MAX_ATTEMPTS == 2  \* tarantool.const.RETRY_MAX_ATTEMPTS, scaled down

\* ------------------------------------------------------ program constants
PrefixLen == 5           \* size of the msgpack length prefix of a frame
buffer_size == 32768     \* Connection.__init__'s default receive capacity

Callers == 1..NCallers
Reader == 0              \* the Reader loop as a caller of _do_close
Nobody == -1
Spaces == {512}

\* a value the code holds as None
NoneBuf == <<-1>>

\* ---------------------------------------------------------------- values
\* what a future is resolved with and what an operation ends with: a response
\* (its decoded fields), an exception, or a space descriptor
Val(t, s, rc, cs, rows, msg) ==
    [type |-> t, sync |-> s, return_code |-> rc, completion_status |-> cs,
     rows |-> rows, return_message |-> msg, desc |-> 0, via |-> "", epoch |-> 0]
NoVal == Val("none", 0, 0, 0, 0, 0)
Err(t) == Val(t, 0, 0, 0, 0, 0)
\* descriptor d, with two observers: the return statement that gave it
\* ("cache", "recheck" or "select") and the number of flushes before it
Desc(d, how, e) == [NoVal EXCEPT !.type = "desc", !.desc = d, !.via = how, !.epoch = e]

\* DatabaseError(code, message)
DatabaseError(rc, msg) == Val("DatabaseError", 0, rc, 0, 0, msg)
\* NetworkError(socket.error(ECONNRESET, ...))
NetworkError == Err("NetworkError")

\* tornado.concurrent.Future(), with two observers: the number of times it was
\* resolved and the sync it was registered under
Future(s) == [st |-> "pending", val |-> NoVal, n |-> 0, key |-> s]
set_result(f, v) == [f EXCEPT !.st = "result", !.val = v, !.n = @ + 1]
set_exception(f, e) == [f EXCEPT !.st = "exception", !.val = e, !.n = @ + 1]
cancel(f) ==
    [f EXCEPT !.st = "cancelled", !.val = Err("CancelledError"), !.n = @ + 1]

\* ------------------------------------------------------------ wire format
\* the 5-byte prefix: msgpack uint32 (0xce, big-endian length)
PackLength(n) ==
    <<206, (n \div 16777216) % 256, (n \div 65536) % 256, (n \div 256) % 256, n % 256>>
\* msgpack.unpackb(length_pack)
UnpackLength(p) == p[2] * 16777216 + p[3] * 65536 + p[4] * 256 + p[5]
FrameOf(body) == PackLength(Len(body)) \o body

\* the bytes of a response payload and the decoder's view of them
ResponseBytes(s, rc, cs, rows, msg) == <<s, rc, cs, rows, msg>>
Response(body) == Val("response", body[1], body[2], body[3], body[4], body[5])

\* bytes(request): request type and sync
REQUEST_INSERT == 2
REQUEST_SELECT == 1
RequestBytes(type, s) == <<type, s>>

\* the kinds of response the server may give: (return_code, completion_status, rows)
Kinds == {<<0, 0, 1>>, <<0, 1, 0>>, <<7, 1, 0>>}

Min(a, b) == IF a < b THEN a ELSE b
Drop(s, n) == SubSeq(s, n + 1, Len(s))

\* ------------------------------------------------------------------ state
VARIABLES
    connected,     \* Connection.connected
    req_num,       \* Connection.req_num
    waiters,       \* Connection._waiters: sync -> index into futures
    futures,       \* every Future created for a request, by creation order
    write_event,   \* Connection._write_event: "None", "clear" or "set"
    write_buf,     \* Connection._write_buf: NoneBuf or bytes
    reader_task,   \* Connection._reader_task is not None
    writer_task,   \* Connection._writer_task is not None
    lockHolder,    \* who holds Connection.lock (Nobody when free)
    lockQueue,     \* coroutines waiting in lock.acquire(), in FIFO order
    schema,        \* Schema.schema: space id -> descriptor
    rpc,           \* position of the _response_reader coroutine
    buf,           \* _response_reader's accumulated buffer
    wpc,           \* position of the _response_writer coroutine
    to_write,      \* bytes of the stream.write in flight
    stream,        \* the transport: "None" or "open"
    wire,          \* bytes that arrived on the socket and were not read yet
    eof,           \* the peer ended the stream
    written,       \* bytes the transport accepted on this connection
    pc,            \* position of each caller coroutine
    op,            \* the public operation a caller is running / ran last
    ctx,           \* connect()'s caller: "top", "send" or "gs"
    sync,          \* request.sync of a caller's request
    waiter,        \* the Future a caller awaits (index into futures)
    attempt,       \* _send_request's loop variable
    space,         \* get_space's argument
    result,        \* how a caller's last operation ended
    nextDesc,      \* identity of the next SchemaSpace object constructed
    \* the environment: its budgets and what it has used of them
    limits, nops, nframes, neof,
    \* observers of the history, read by no action
    nsent,         \* appends of a caller's current request to _write_buf
    nwarn,         \* retry notices of a caller's current request
    nselect,       \* metadata selects issued per space since the last flush
    nfailed,       \* lookups per space that raised since the last flush
    epoch,         \* calls of flush
    nteardown,     \* teardown bodies entered since the transport was opened
    nopen,         \* transports opened
    appended,      \* bytes appended to _write_buf on this connection, in order
    emitted,       \* payloads the server emitted on this connection, in order
    decoded        \* payloads handed to Response() on this connection, in order

vars == <<connected, req_num, waiters, futures, write_event, write_buf,
          reader_task, writer_task, lockHolder, lockQueue, schema, rpc, buf,
          wpc, to_write, stream, wire, eof, written, pc, op, ctx, sync,
          waiter, attempt, space, result, nextDesc, limits, nops, nframes,
          neof, nsent, nwarn, nselect, nfailed, epoch, nteardown, nopen,
          appended, emitted, decoded>>

\* The state as one record, so that the code between two suspension points
\* can be written as the composition of the functions it calls.
S == [connected |-> connected, req_num |-> req_num, waiters |-> waiters,
      futures |-> futures, write_event |-> write_event, write_buf |-> write_buf,
      reader_task |-> reader_task, writer_task |-> writer_task,
      lockHolder |-> lockHolder, lockQueue |-> lockQueue, schema |-> schema,
      rpc |-> rpc, buf |-> buf, wpc |-> wpc, to_write |-> to_write,
      stream |-> stream, wire |-> wire, eof |-> eof,
      written |-> written, pc |-> pc, op |-> op, ctx |-> ctx, sync |-> sync,
      waiter |-> waiter, attempt |-> attempt, space |-> space, result |-> result,
      nextDesc |-> nextDesc, limits |-> limits, nops |-> nops, nframes |-> nframes, neof |-> neof,
      nsent |-> nsent, nwarn |-> nwarn, nselect |-> nselect, nfailed |-> nfailed,
      epoch |-> epoch,
      nteardown |-> nteardown, nopen |-> nopen, appended |-> appended,
      emitted |-> emitted,
      decoded |-> decoded]

Becomes(T) ==
    /\ connected' = T.connected /\ req_num' = T.req_num /\ waiters' = T.waiters
    /\ futures' = T.futures /\ write_event' = T.write_event
    /\ write_buf' = T.write_buf /\ reader_task' = T.reader_task
    /\ writer_task' = T.writer_task /\ lockHolder' = T.lockHolder
    /\ lockQueue' = T.lockQueue /\ schema' = T.schema /\ rpc' = T.rpc
    /\ buf' = T.buf /\ wpc' = T.wpc /\ to_write' = T.to_write
    /\ stream' = T.stream /\ wire' = T.wire /\ eof' = T.eof
    /\ written' = T.written /\ pc' = T.pc /\ op' = T.op /\ ctx' = T.ctx
    /\ sync' = T.sync /\ waiter' = T.waiter /\ attempt' = T.attempt
    /\ space' = T.space /\ result' = T.result /\ nextDesc' = T.nextDesc
    /\ limits' = T.limits
    /\ nops' = T.nops /\ nframes' = T.nframes /\ neof' = T.neof
    /\ nsent' = T.nsent /\ nwarn' = T.nwarn /\ nselect' = T.nselect
    /\ nfailed' = T.nfailed /\ epoch' = T.epoch /\ nteardown' = T.nteardown /\ nopen' = T.nopen
    /\ appended' = T.appended /\ emitted' = T.emitted /\ decoded' = T.decoded

\* the state after Connection.__init__ (connect_now=False, no credentials)
Constructed ==
    /\ connected = FALSE /\ req_num = 0 /\ waiters = <<>> /\ futures = <<>>
    /\ write_event = "None" /\ write_buf = NoneBuf
    /\ reader_task = FALSE /\ writer_task = FALSE
    /\ lockHolder = Nobody /\ lockQueue = <<>> /\ schema = <<>>
    /\ rpc = "off" /\ buf = <<>> /\ wpc = "off" /\ to_write = <<>>
    /\ stream = "None" /\ wire = <<>> /\ eof = FALSE
    /\ written = <<>>
    /\ pc = [c \in Callers |-> "idle"] /\ op = [c \in Callers |-> "none"]
    /\ ctx = [c \in Callers |-> "top"] /\ sync = [c \in Callers |-> 0]
    /\ waiter = [c \in Callers |-> 0] /\ attempt = [c \in Callers |-> 0]
    /\ space = [c \in Callers |-> 0] /\ result = [c \in Callers |-> NoVal]
    /\ nextDesc = 1 /\ nops = 0 /\ nframes = 0 /\ neof = 0
    /\ nsent = [c \in Callers |-> 0] /\ nwarn = [c \in Callers |-> 0]
    /\ nselect = [s \in Spaces |-> 0] /\ nfailed = [s \in Spaces |-> 0]
    /\ epoch = 0 /\ nteardown = 0 /\ nopen = 0
    /\ appended = <<>> /\ emitted = <<>> /\ decoded = <<>>

Init == Constructed /\ limits = [ops |-> MaxOps, frames |-> MaxFrames]

\* ------------------------------------------------------------- the lock
\* tornado.locks.Semaphore.release: the lock passes to the first waiter
Release(T) ==
    IF T.lockQueue = <<>>
    THEN [T EXCEPT !.lockHolder = Nobody]
    ELSE [T EXCEPT !.lockHolder = Head(T.lockQueue), !.lockQueue = Tail(T.lockQueue)]

\* coroutine p has been handed the lock it waited for; a coroutine that
\* holds the lock and waits for it again (the lock is not re-entrant) has not
Acquired(p) ==
    lockHolder = p /\ \A i \in DOMAIN lockQueue : lockQueue[i] # p

\* lock.acquire() on a held lock: the coroutine is queued and suspends at `at`
Enqueue(T, c, at) == [T EXCEPT !.lockQueue = Append(@, c), !.pc[c] = at]

\* a public operation of caller c ends with r
Finish(T, c, r) == [T EXCEPT !.pc[c] = "idle", !.result[c] = r]
Ok == Err("ok")

\* an operation of kind o starts
Start(T, c, o) ==
    [T EXCEPT !.op[c] = o, !.nops = @ + 1, !.result[c] = NoVal, !.ctx[c] = "top"]

\* ------------------------------------------------------------- connect()
\* connect() has returned to its caller
connect_return(T, c) ==
    IF T.ctx[c] = "top" THEN Finish(T, c, Ok) ELSE [T EXCEPT !.pc[c] = "conn_ret"]

\* (faulty variant) no re-check of `connected` under the lock
connect_locked_no_recheck(T, c) == [T EXCEPT !.pc[c] = "conn_open"]

\* the re-check under the lock, then the transport is being opened
connect_locked(T, c) ==
    IF T.connected
    THEN connect_return(Release(T), c)
    ELSE [T EXCEPT !.pc[c] = "conn_open"]

\* connect() up to its first suspension; cx names the calling coroutine
connect(T, c, cx) ==
    LET T1 == [T EXCEPT !.ctx[c] = cx] IN
    IF T1.connected THEN Finish(T1, c, Ok)
    ELSE IF T1.lockHolder = Nobody
         THEN connect_locked([T1 EXCEPT !.lockHolder = c], c)
         ELSE Enqueue(T1, c, "conn_lock")

\* the transport is open: mark connected, start both loops, leave the lock
connect_opened(T, c) ==
    LET T1 == [T EXCEPT !.stream = "open", !.wire = <<>>,
                        !.eof = FALSE, !.written = <<>>,
                        !.write_event = "clear", !.write_buf = <<>>,
                        !.connected = TRUE,
                        !.reader_task = TRUE, !.rpc = "greeting", !.buf = <<>>,
                        !.writer_task = TRUE, !.wpc = "wait", !.to_write = <<>>,
                        !.nopen = @ + 1, !.nteardown = 0,
                        !.appended = <<>>, !.emitted = <<>>, !.decoded = <<>>]
    IN connect_return(Release(T1), c)

\* ------------------------------------------------------- request dispatch
\* generate_sync, called by the constructor of caller c's request
generate_sync(T, c) ==
    LET n == IF T.req_num + 1 > SyncCeiling THEN 0 ELSE T.req_num + 1 IN
    [T EXCEPT !.req_num = n,
              !.futures = Append(@, Future(n)),
              !.waiters = (n :> (Len(T.futures) + 1)) @@ @,
              !.sync[c] = n, !.attempt[c] = 0, !.nsent[c] = 0, !.nwarn[c] = 0]

ReqType(T, c) == IF T.op[c] = "get_space" THEN REQUEST_SELECT ELSE REQUEST_INSERT

\* get_space once its select has returned `array`: construct and cache the
\* descriptor, leave the `with` block
get_space_result(T, c, array) ==
    LET s == T.space[c] IN
    IF array.rows # 1
    THEN Finish(Release([T EXCEPT !.nfailed[s] = @ + 1]), c, Err("SchemaError"))
    ELSE Finish(Release([T EXCEPT !.schema = (s :> T.nextDesc) @@ @,
                                  !.nextDesc = @ + 1]),
                c, Desc(T.nextDesc, "select", T.epoch))

\* an exception e leaves _send_request (and get_space's `with` block)
raise(T, c, e) ==
    IF T.op[c] = "get_space"
    THEN Finish(Release([T EXCEPT !.nfailed[T.space[c]] = @ + 1]), c, e)
    ELSE Finish(T, c, e)

\* _send_request returns response r
return_response(T, c, r) ==
    IF T.op[c] = "get_space" THEN get_space_result(T, c, r) ELSE Finish(T, c, r)

\* (faulty variant) the request's bytes are appended on the first attempt only
send_attempt_once(T, c) ==
    LET s == T.sync[c] IN
    IF s \notin DOMAIN T.waiters THEN raise(T, c, Err("KeyError"))
    ELSE IF T.write_buf = NoneBuf THEN raise(T, c, Err("TypeError"))
    ELSE IF T.nsent[c] >= 1
         THEN [T EXCEPT !.waiter[c] = T.waiters[s], !.pc[c] = "await"]
         ELSE [T EXCEPT !.waiter[c] = T.waiters[s],
                        !.write_buf = @ \o RequestBytes(ReqType(T, c), s),
                   !.appended = @ \o RequestBytes(ReqType(T, c), s),
                        !.write_event = "set",
                        !.nsent[c] = @ + 1,
                        !.pc[c] = "await"]

\* one iteration of the attempt loop up to `yield waiter`
send_attempt(T, c) ==
    LET s == T.sync[c] IN
    IF s \notin DOMAIN T.waiters THEN raise(T, c, Err("KeyError"))
    ELSE IF T.write_buf = NoneBuf THEN raise(T, c, Err("TypeError"))
    ELSE [T EXCEPT !.waiter[c] = T.waiters[s],
                   !.write_buf = @ \o RequestBytes(ReqType(T, c), s),
                   !.appended = @ \o RequestBytes(ReqType(T, c), s),
                   !.write_event = "set",
                   !.nsent[c] = @ + 1,
                   !.pc[c] = "await"]

\* _send_request up to its first suspension
send_request(T, c) ==
    IF ~T.connected THEN connect(T, c, "send") ELSE send_attempt(T, c)

\* a retry-needed response: a fresh slot under the same sync, a retry notice
reregister(T, c) ==
    [T EXCEPT !.futures = Append(@, Future(T.sync[c])),
              !.waiters = (T.sync[c] :> (Len(T.futures) + 1)) @@ @,
              !.nwarn[c] = @ + 1,
              !.attempt[c] = @ + 1]

\* (faulty variant) one attempt too many
send_resume_one_more(T, c) ==
    LET f == T.futures[T.waiter[c]] IN
    IF f.st # "result" THEN raise(T, c, f.val)
    ELSE LET response == f.val IN
         IF response.completion_status # 1 THEN return_response(T, c, response)
         ELSE LET T1 == reregister(T, c) IN
              IF T1.attempt[c] <= RETRY_MAX_ATTEMPTS
              THEN send_attempt(T1, c)
              ELSE raise(T1, c, DatabaseError(response.return_code,
                                              response.return_message))

\* (faulty variant) a DatabaseError response is retried like an incomplete one
send_resume_retry_errors(T, c) ==
    LET f == T.futures[T.waiter[c]] IN
    IF f.st # "result"
    THEN IF f.val.type = "DatabaseError" /\ T.attempt[c] + 1 < RETRY_MAX_ATTEMPTS
         THEN send_attempt(reregister(T, c), c)
         ELSE raise(T, c, f.val)
    ELSE LET response == f.val IN
         IF response.completion_status # 1 THEN return_response(T, c, response)
         ELSE LET T1 == reregister(T, c) IN
              IF T1.attempt[c] < RETRY_MAX_ATTEMPTS
              THEN send_attempt(T1, c)
              ELSE raise(T1, c, DatabaseError(response.return_code,
                                              response.return_message))

\* the awaited waiter is done: the rest of the attempt loop
send_resume(T, c) ==
    LET f == T.futures[T.waiter[c]] IN
    IF f.st # "result" THEN raise(T, c, f.val)
    ELSE LET response == f.val IN
         IF response.completion_status # 1 THEN return_response(T, c, response)
         ELSE LET T1 == reregister(T, c) IN
              IF T1.attempt[c] < RETRY_MAX_ATTEMPTS
              THEN send_attempt(T1, c)
              ELSE raise(T1, c, DatabaseError(response.return_code,
                                              response.return_message))

\* ------------------------------------------------------------ Schema
\* (faulty variant) no re-check of the cache under the lock
get_space_locked_no_recheck(T, c) ==
    send_request(generate_sync([T EXCEPT !.nselect[T.space[c]] = @ + 1], c), c)

\* get_space under the lock: the re-check, then the metadata select
get_space_locked(T, c) ==
    LET s == T.space[c] IN
    IF s \in DOMAIN T.schema
    THEN Finish(Release(T), c, Desc(T.schema[s], "recheck", T.epoch))
    ELSE send_request(generate_sync([T EXCEPT !.nselect[s] = @ + 1], c), c)

\* `with (yield self.con.lock.acquire())`
get_space_acquire(T, c) ==
    IF T.lockHolder = Nobody
    THEN get_space_locked([T EXCEPT !.lockHolder = c], c)
    ELSE Enqueue(T, c, "gs_lock")

\* (faulty variant) the cache is not consulted before the lock is taken
get_space_no_cache(T, c, s) ==
    LET T1 == [T EXCEPT !.space[c] = s] IN
    IF ~T1.connected THEN connect(T1, c, "gs")
    ELSE IF T1.lockHolder = Nobody
         THEN get_space_locked_no_recheck([T1 EXCEPT !.lockHolder = c], c)
         ELSE Enqueue(T1, c, "gs_lock")

\* get_space up to its first suspension
get_space(T, c, s) ==
    LET T1 == [T EXCEPT !.space[c] = s] IN
    IF s \in DOMAIN T1.schema
    THEN Finish(T1, c, Desc(T1.schema[s], "cache", T1.epoch))
    ELSE IF ~T1.connected THEN connect(T1, c, "gs")
    ELSE get_space_acquire(T1, c)

\* Schema.flush
flush(T) ==
    [T EXCEPT !.schema = <<>>, !.epoch = @ + 1,
              !.nselect = [s \in Spaces |-> 0], !.nfailed = [s \in Spaces |-> 0]]

\* the coroutine that called connect() resumes
after_connect(T, c) ==
    IF T.ctx[c] = "gs" THEN get_space_acquire(T, c) ELSE send_attempt(T, c)

\* ------------------------------------------------------- close, teardown
\* the exception _do_close was given: the Reader passes a NetworkError,
\* close() passes None
ExcOf(p) == IF p = Reader THEN NetworkError ELSE NoVal

\* position of coroutine p inside _do_close
SetClosePc(T, p, at) ==
    IF p = Reader THEN [T EXCEPT !.rpc = at] ELSE [T EXCEPT !.pc[p] = at]

\* the lock is held: mark disconnected, start closing the transport
do_close_locked(T, p) ==
    SetClosePc([T EXCEPT !.connected = FALSE, !.nteardown = @ + 1], p, "close_tcp")

\* _do_close up to its first suspension, for a connected Connection
do_close_acquire(T, p) ==
    IF T.lockHolder = Nobody
    THEN do_close_locked([T EXCEPT !.lockHolder = p], p)
    ELSE SetClosePc([T EXCEPT !.lockQueue = Append(@, p)], p, "close_lock")

\* (faulty variant) the loop stops after the first slot
resolve_waiters_first(T, exc) ==
    [T EXCEPT !.futures =
        [i \in DOMAIN T.futures |->
            IF /\ \E s \in DOMAIN T.waiters : T.waiters[s] = i
               /\ \A s \in DOMAIN T.waiters : T.waiters[s] >= i
            THEN IF exc = NoVal THEN cancel(T.futures[i])
                 ELSE set_exception(T.futures[i], exc)
            ELSE T.futures[i]]]

\* the loop over the waiter table: each slot cancelled or failed with exc
resolve_waiters(T, exc) ==
    [T EXCEPT !.futures =
        [i \in DOMAIN T.futures |->
            IF \E s \in DOMAIN T.waiters : T.waiters[s] = i
            THEN IF exc = NoVal THEN cancel(T.futures[i])
                 ELSE set_exception(T.futures[i], exc)
            ELSE T.futures[i]]]

Without(q, p) == SelectSeq(q, LAMBDA x : x # p)

\* (faulty variant) the teardown also empties the schema cache
do_close_body_flush(T, p) ==
    LET T1 == [T EXCEPT !.stream = "None", !.wire = <<>>, !.eof = FALSE,
                        !.rpc = "off", !.reader_task = FALSE,
                        !.lockQueue = Without(@, Reader),
                        !.wpc = "off", !.to_write = <<>>, !.writer_task = FALSE,
                        !.write_event = "None", !.write_buf = NoneBuf,
                        !.schema = <<>>]
        T2 == [resolve_waiters(T1, ExcOf(p)) EXCEPT !.waiters = <<>>]
    IN Release(T2)

\* the transport is closed: cancel both loops, resolve the waiters, empty
\* the table, leave the lock
do_close_body(T, p) ==
    LET T1 == [T EXCEPT !.stream = "None", !.wire = <<>>, !.eof = FALSE,
                        !.rpc = "off", !.reader_task = FALSE,
                        !.lockQueue = Without(@, Reader),
                        !.wpc = "off", !.to_write = <<>>, !.writer_task = FALSE,
                        !.write_event = "None", !.write_buf = NoneBuf]
        T2 == [resolve_waiters(T1, ExcOf(p)) EXCEPT !.waiters = <<>>]
    IN Release(T2)

\* the rest of _do_close once the transport is closed; with no reader task
\* (a teardown already ran) `self._reader_task.cancel()` raises
do_close_finish(T, p) ==
    IF ~T.reader_task
    THEN IF p = Reader THEN [Release(T) EXCEPT !.rpc = "off"]
         ELSE Finish(Release(T), p, Err("AttributeError"))
    ELSE IF p = Reader THEN do_close_body(T, p)
         ELSE Finish(do_close_body(T, p), p, Ok)

\* close() up to its first suspension
close(T, c) ==
    IF ~T.connected THEN Finish(T, c, Ok) ELSE do_close_acquire(T, c)

\* ------------------------------------------------------------ Reader loop
\* `while self.connected:`; after the loop `_do_close(None)` finds the
\* Connection disconnected and returns
reader_loop_test(T) ==
    IF T.connected THEN [T EXCEPT !.rpc = "read"] ELSE [T EXCEPT !.rpc = "done"]

\* (faulty variant) the response goes to the oldest waiter, whatever its sync
on_response_oldest(T, body) ==
    LET response == Response(body)
        T1 == [T EXCEPT !.decoded = Append(@, body)] IN
    IF response.sync \notin DOMAIN T1.waiters THEN T1
    ELSE LET s == CHOOSE k \in DOMAIN T1.waiters :
                      \A m \in DOMAIN T1.waiters : T1.waiters[k] <= T1.waiters[m]
             i == T1.waiters[s] IN
         [T1 EXCEPT !.futures[i] = set_result(@, response),
                    !.waiters = [k \in DOMAIN T1.waiters \ {s} |-> T1.waiters[k]]]

\* one decoded frame: resolve the waiter of its sync and remove it, or
\* discard the frame
on_response(T, body) ==
    LET response == Response(body)
        T1 == [T EXCEPT !.decoded = Append(@, body)] IN
    IF response.sync \notin DOMAIN T1.waiters THEN T1
    ELSE LET i == T1.waiters[response.sync] IN
         [T1 EXCEPT !.futures[i] =
                        IF response.return_code # 0
                        THEN set_exception(@, DatabaseError(response.return_code,
                                                            response.return_message))
                        ELSE set_result(@, response),
                    !.waiters = [k \in DOMAIN T1.waiters \ {response.sync} |->
                                    T1.waiters[k]]]

\* (faulty variant) the consumed bytes are never cut off
cut_buffer_never(b, curr) == b

\* `if curr: buf = buf[curr:]`
cut_buffer(b, curr) == IF curr # 0 THEN Drop(b, curr) ELSE b

\* (faulty variant) a frame without a waiter ends the processing of the read
RECURSIVE frame_loop_abort(_, _, _)
frame_loop_abort(T, b, curr) ==
    IF Len(b) - curr >= PrefixLen
    THEN LET length == UnpackLength(SubSeq(b, curr + 1, curr + PrefixLen))
             body == SubSeq(b, curr + PrefixLen + 1, curr + PrefixLen + length) IN
         IF Len(b) - curr < PrefixLen + length
         THEN [T EXCEPT !.buf = cut_buffer(b, curr)]
         ELSE IF Response(body).sync \notin DOMAIN T.waiters
              THEN [on_response(T, body) EXCEPT
                        !.buf = cut_buffer(b, curr + PrefixLen + length)]
              ELSE frame_loop_abort(on_response(T, body), b,
                                    curr + PrefixLen + length)
    ELSE [T EXCEPT !.buf = cut_buffer(b, curr)]

\* the inner loop: extract and process every complete frame of b from curr
RECURSIVE frame_loop(_, _, _)
frame_loop(T, b, curr) ==
    IF Len(b) - curr >= PrefixLen
    THEN LET length == UnpackLength(SubSeq(b, curr + 1, curr + PrefixLen)) IN
         IF Len(b) - curr < PrefixLen + length
         THEN [T EXCEPT !.buf = cut_buffer(b, curr)]
         ELSE frame_loop(on_response(T, SubSeq(b, curr + PrefixLen + 1,
                                               curr + PrefixLen + length)),
                         b, curr + PrefixLen + length)
    ELSE [T EXCEPT !.buf = cut_buffer(b, curr)]

\* read_bytes(buffer_size, partial=True) returned tmp_buf (not empty)
reader_read(T, n) ==
    LET tmp_buf == SubSeq(T.wire, 1, n)
        T1 == [T EXCEPT !.wire = Drop(@, n)] IN
    reader_loop_test(frame_loop(T1, T1.buf \o tmp_buf, 0))

\* read_bytes returned nothing: fault teardown
reader_eof(T) ==
    IF ~T.connected THEN reader_loop_test(frame_loop(T, T.buf, 0))
    ELSE do_close_acquire(T, Reader)

\* ------------------------------------------------------------ Writer loop
\* `self._write_event.clear()`, the loop test, `yield self._write_event.wait()`
writer_clear(T) ==
    LET T1 == [T EXCEPT !.write_event = "clear"] IN
    IF T1.connected THEN [T1 EXCEPT !.wpc = "wait"] ELSE [T1 EXCEPT !.wpc = "done"]

\* (faulty variant) the buffer is written but not emptied
writer_run_keep(T) ==
    IF T.write_buf # <<>>
    THEN [T EXCEPT !.to_write = T.write_buf, !.wpc = "writing"]
    ELSE writer_clear(T)

\* the event is set: swap the buffer out and write it
writer_run(T) ==
    IF T.write_buf # <<>>
    THEN [T EXCEPT !.to_write = T.write_buf, !.write_buf = <<>>, !.wpc = "writing"]
    ELSE writer_clear(T)

\* stream.write completed
writer_written(T) ==
    writer_clear([T EXCEPT !.written = @ \o T.to_write, !.to_write = <<>>])

\* ----------------------------------------------------- server and network
\* the syncs of the requests the server has received on this connection
Received(T) == {T.written[i] : i \in {j \in DOMAIN T.written : j % 2 = 0}}

\* the server answers request s with a response of kind k; the frame's
\* message is its serial number
server_send(T, s, k) ==
    LET body == ResponseBytes(s, k[1], k[2], k[3], T.nframes + 1) IN
    [T EXCEPT !.wire = @ \o FrameOf(body),
              !.nframes = @ + 1,
              !.emitted = Append(@, body)]

server_eof(T) == [T EXCEPT !.eof = TRUE, !.neof = @ + 1]

\* a byte stream of the peer: the frames of the payloads bs, then bytes `rest`
RECURSIVE Flatten(_)
Flatten(bs) == IF bs = <<>> THEN <<>> ELSE FrameOf(Head(bs)) \o Flatten(Tail(bs))

peer_stream(T, bs, rest) ==
    [T EXCEPT !.wire = Flatten(bs) \o rest, !.emitted = bs,
              !.nframes = Len(bs) + 1]

\* ---------------------------------------------------------------- actions
\* a caller starts a public operation
Connect(c) ==
    /\ pc[c] = "idle" /\ nops < limits.ops
    /\ Becomes(connect(Start(S, c, "connect"), c, "top"))

Dispatch(c) ==
    /\ pc[c] = "idle" /\ nops < limits.ops
    /\ Becomes(send_request(generate_sync(Start(S, c, "dispatch"), c), c))

GetSpace(c, s) ==
    /\ pc[c] = "idle" /\ nops < limits.ops
    /\ Becomes(get_space(Start(S, c, "get_space"), c, s))

Close(c) ==
    /\ pc[c] = "idle" /\ nops < limits.ops
    /\ Becomes(close(Start(S, c, "close"), c))

Flush ==
    /\ nops < limits.ops
    /\ Becomes([flush(S) EXCEPT !.nops = @ + 1])

\* a suspended caller resumes
ConnectLocked(c) ==
    /\ pc[c] = "conn_lock" /\ Acquired(c)
    /\ Becomes(connect_locked(S, c))

ConnectOpened(c) ==
    /\ pc[c] = "conn_open"
    /\ Becomes(connect_opened(S, c))

AfterConnect(c) ==
    /\ pc[c] = "conn_ret"
    /\ Becomes(after_connect(S, c))

GetSpaceLocked(c) ==
    /\ pc[c] = "gs_lock" /\ Acquired(c)
    /\ Becomes(get_space_locked(S, c))

SendResume(c) ==
    /\ pc[c] = "await" /\ futures[waiter[c]].st # "pending"
    /\ Becomes(send_resume(S, c))

CloseLocked(c) ==
    /\ pc[c] = "close_lock" /\ Acquired(c)
    /\ Becomes(do_close_locked(S, c))

CloseFinish(c) ==
    /\ pc[c] = "close_tcp"
    /\ Becomes(do_close_finish(S, c))

\* the Reader loop
ReaderGreeting ==
    /\ rpc = "greeting"
    /\ Becomes(reader_loop_test(S))

ReaderRead ==
    /\ rpc = "read" /\ wire # <<>>
    /\ Becomes(reader_read(S, Min(Len(wire), buffer_size)))

ReaderEof ==
    /\ rpc = "read" /\ wire = <<>> /\ eof
    /\ Becomes(reader_eof(S))

ReaderCloseLocked ==
    /\ rpc = "close_lock" /\ Acquired(Reader)
    /\ Becomes(do_close_locked(S, Reader))

ReaderCloseFinish ==
    /\ rpc = "close_tcp"
    /\ Becomes(do_close_finish(S, Reader))

\* the Writer loop
WriterRun ==
    /\ wpc = "wait" /\ write_event = "set"
    /\ Becomes(writer_run(S))

WriterWritten ==
    /\ wpc = "writing"
    /\ Becomes(writer_written(S))

\* the server and the network
ServerSend ==
    /\ stream = "open" /\ ~eof /\ nframes < limits.frames
    /\ \E s \in Received(S), k \in Kinds : Becomes(server_send(S, s, k))

ServerEof ==
    /\ stream = "open" /\ ~eof /\ neof < MaxEof
    /\ Becomes(server_eof(S))

\* every operation of the Connection and of its Schema
Next ==
    \/ \E c \in Callers : Connect(c)
    \/ \E c \in Callers : Dispatch(c)
    \/ \E c \in Callers, s \in Spaces : GetSpace(c, s)
    \/ \E c \in Callers : Close(c)
    \/ Flush
    \/ \E c \in Callers : ConnectLocked(c)
    \/ \E c \in Callers : ConnectOpened(c)
    \/ \E c \in Callers : AfterConnect(c)
    \/ \E c \in Callers : GetSpaceLocked(c)
    \/ \E c \in Callers : SendResume(c)
    \/ \E c \in Callers : CloseLocked(c)
    \/ \E c \in Callers : CloseFinish(c)
    \/ ReaderGreeting
    \/ ReaderRead
    \/ ReaderEof
    \/ ReaderCloseLocked
    \/ ReaderCloseFinish
    \/ WriterRun
    \/ WriterWritten
    \/ ServerSend
    \/ ServerEof

Spec == Init /\ [][Next]_vars

\* callers that only dispatch, and a server with a larger budget of frames
InitDispatch ==
    Constructed /\ limits = [ops |-> DispatchOps, frames |-> DispatchFrames]

NextDispatch ==
    \/ \E c \in Callers : Dispatch(c)
    \/ \E c \in Callers : ConnectLocked(c)
    \/ \E c \in Callers : ConnectOpened(c)
    \/ \E c \in Callers : AfterConnect(c)
    \/ \E c \in Callers : SendResume(c)
    \/ ReaderGreeting
    \/ ReaderRead
    \/ WriterRun
    \/ WriterWritten
    \/ ServerSend

DispatchSpec == InitDispatch /\ [][NextDispatch]_vars

\* callers that only look spaces up and flush the cache
InitSchema ==
    Constructed /\ limits = [ops |-> SchemaOps, frames |-> SchemaFrames]

NextSchema ==
    \/ \E c \in Callers, s \in Spaces : GetSpace(c, s)
    \/ Flush
    \/ \E c \in Callers : ConnectLocked(c)
    \/ \E c \in Callers : ConnectOpened(c)
    \/ \E c \in Callers : AfterConnect(c)
    \/ \E c \in Callers : GetSpaceLocked(c)
    \/ \E c \in Callers : SendResume(c)
    \/ ReaderGreeting
    \/ ReaderRead
    \/ WriterRun
    \/ WriterWritten
    \/ ServerSend

SchemaSpec == InitSchema /\ [][NextSchema]_vars

\* ------------------------------------------------------------ properties
Resolved(f) == f.st # "pending"
Finished(c, o) == pc[c] = "idle" /\ op[c] = o

\* C1: concurrent requests are demultiplexed by sync.  Every slot is resolved
\* at most once; a slot resolved with a response holds the response whose sync
\* is the one the slot was registered under; and a dispatch that returns a
\* response returns the one of the slot it awaited, carrying its request's sync.
C1_OwnResponse ==
    /\ \A i \in DOMAIN futures :
          /\ futures[i].n <= 1
          /\ futures[i].st = "result" => futures[i].val.sync = futures[i].key
    /\ \A c \in Callers :
          Finished(c, "dispatch") /\ result[c].type = "response" =>
              /\ result[c].sync = sync[c]
              /\ result[c] = futures[waiter[c]].val
              /\ futures[waiter[c]].key = sync[c]

\* C1's case: two requests were on the wire before any response, the response
\* to the second arrived first, and both callers have their own response
C1_Witness ==
    /\ \A c \in Callers : Finished(c, "dispatch") /\ result[c].type = "response"
    /\ \E c, d \in Callers : sync[c] < sync[d]
    /\ Len(decoded) = 2
    /\ Response(decoded[1]).sync > Response(decoded[2]).sync

\* C2: the teardown of a Connection that was connected when it took the lock
\* resolves every slot of the waiter table, each of them unresolved until then:
\* cancelled by close(), failed with the NetworkError by the Reader's fault
\* teardown; no other slot changes, the table is empty afterwards, and no slot
\* is ever resolved twice.
TeardownDoneBy(p) ==
    IF p = Reader THEN rpc = "close_tcp" /\ rpc' # "close_tcp"
    ELSE pc[p] = "close_tcp" /\ pc'[p] # "close_tcp"

C2_Step ==
    \A p \in Callers \cup {Reader} :
        TeardownDoneBy(p) /\ nteardown = 1 =>
            /\ waiters' = <<>>
            /\ \A i \in DOMAIN futures :
                  IF \E s \in DOMAIN waiters : waiters[s] = i
                  THEN /\ futures[i].st = "pending"
                       /\ futures'[i].n = 1
                       /\ IF p = Reader
                          THEN /\ futures'[i].st = "exception"
                               /\ futures'[i].val = NetworkError
                          ELSE futures'[i].st = "cancelled"
                  ELSE futures'[i] = futures[i]

C2_TeardownResolves ==
    /\ [](\A i \in DOMAIN futures : futures[i].n <= 1)
    /\ [][C2_Step]_vars

\* C2's case: a fault teardown has failed two pending requests
C2_Witness ==
    /\ ~connected /\ waiters = <<>> /\ nteardown = 1
    /\ \E i, j \in DOMAIN futures :
          /\ i # j
          /\ futures[i].st = "exception" /\ futures[i].val = NetworkError
          /\ futures[j].st = "exception" /\ futures[j].val = NetworkError

\* the Connection under dispatches and lookups with a peer that may end the
\* stream.  Fairness: the IOLoop runs every callback that is ready, so each
\* coroutine that can resume does; what callers start and what the server
\* sends is left free.
InitFault ==
    Constructed /\ limits = [ops |-> FaultOps, frames |-> FaultFrames]

NextFault ==
    \/ \E c \in Callers : Dispatch(c)
    \/ \E c \in Callers, s \in Spaces : GetSpace(c, s)
    \/ \E c \in Callers : ConnectLocked(c)
    \/ \E c \in Callers : ConnectOpened(c)
    \/ \E c \in Callers : AfterConnect(c)
    \/ \E c \in Callers : GetSpaceLocked(c)
    \/ \E c \in Callers : SendResume(c)
    \/ ReaderGreeting
    \/ ReaderRead
    \/ ReaderEof
    \/ ReaderCloseLocked
    \/ ReaderCloseFinish
    \/ WriterRun
    \/ WriterWritten
    \/ ServerSend
    \/ ServerEof

LoopFairness ==
    /\ \A c \in Callers :
          /\ WF_vars(ConnectLocked(c)) /\ WF_vars(ConnectOpened(c))
          /\ WF_vars(AfterConnect(c)) /\ WF_vars(GetSpaceLocked(c))
          /\ WF_vars(SendResume(c))
    /\ WF_vars(ReaderGreeting) /\ WF_vars(ReaderRead) /\ WF_vars(ReaderEof)
    /\ WF_vars(ReaderCloseLocked) /\ WF_vars(ReaderCloseFinish)
    /\ WF_vars(WriterRun) /\ WF_vars(WriterWritten)

FaultSpec == InitFault /\ [][NextFault]_vars /\ LoopFairness

\* C3: once the Reader has observed end-of-stream on a connected Connection
\* (it is inside its fault teardown), the Connection becomes disconnected and
\* no caller that was awaiting a response keeps awaiting it.
EofObserved == rpc \in {"close_lock", "close_tcp"}

StreamBodies == {<<1, 0, 0, 1, 1>>, <<2, 7, 1, 0, 2, 9>>}
BodySeqs == UNION {[1..n -> StreamBodies] : n \in 0..MaxStreamFrames}

PeerStream ==
    /\ rpc = "read" /\ nframes = 0
    /\ \E bs \in BodySeqs, b \in StreamBodies :
          \E t \in 0..(PrefixLen + Len(b) - 1) :
              Becomes(peer_stream(S, bs, SubSeq(FrameOf(b), 1, t)))

PartialRead ==
    /\ rpc = "read" /\ wire # <<>>
    /\ \E n \in 1..Min(Len(wire), buffer_size) : Becomes(reader_read(S, n))

InitFrame == Constructed /\ limits = [ops |-> 1, frames |-> 0]

NextFrame ==
    \/ \E c \in Callers : Connect(c)
    \/ \E c \in Callers : ConnectOpened(c)
    \/ ReaderGreeting
    \/ PeerStream
    \/ PartialRead

FrameSpec == InitFrame /\ [][NextFrame]_vars

IsPrefix(a, b) == Len(a) <= Len(b) /\ SubSeq(b, 1, Len(a)) = a

\* C4: whatever the cut of the stream into reads, the payloads handed to the
\* decoder are the payloads of the stream's frames, whole and in wire order;
\* every byte read is either in a decoded frame or kept in the buffer; and the
\* buffer never holds a complete frame that was not decoded.
C4_NoCompleteFrameLeft ==
    \/ Len(buf) < PrefixLen
    \/ Len(buf) < PrefixLen + UnpackLength(SubSeq(buf, 1, PrefixLen))

C4_Framing ==
    /\ [](IsPrefix(decoded, emitted) /\ C4_NoCompleteFrameLeft)
    /\ [][nframes' = nframes =>
            Flatten(decoded') \o buf' \o wire' = Flatten(decoded) \o buf \o wire]_vars

\* C4's case: a frame was decoded, the next one is in the buffer with its
\* whole prefix and part of its payload, and more bytes are to come
C4_Witness ==
    /\ Len(decoded) >= 1 /\ Len(decoded) < Len(emitted)
    /\ Len(buf) > PrefixLen /\ wire # <<>>

\* C5: concurrent lookups of one space cause one metadata select.  Between two
\* flushes a space has at most one select more than it has failed lookups
\* (so exactly one when none fails), every lookup that returns a descriptor
\* returns the same one, and it is the one in the cache.
C5_OneSelect ==
    /\ \A s \in Spaces : nselect[s] <= 1 + nfailed[s]
    /\ \A c \in Callers :
          Finished(c, "get_space") /\ result[c].type = "desc"
          /\ result[c].epoch = epoch =>
              /\ space[c] \in DOMAIN schema
              /\ schema[space[c]] = result[c].desc
              /\ \A d \in Callers :
                    Finished(d, "get_space") /\ result[d].type = "desc"
                    /\ result[d].epoch = epoch /\ space[d] = space[c] =>
                        result[d].desc = result[c].desc

\* C5's case: one caller got the descriptor from its select, the other waited
\* for the lock meanwhile and got the same descriptor from the re-check
C5_Witness ==
    \E c, d \in Callers, s \in Spaces :
        /\ Finished(c, "get_space") /\ Finished(d, "get_space")
        /\ space[c] = s /\ space[d] = s
        /\ result[c].type = "desc" /\ result[c].via = "select"
        /\ result[d].type = "desc" /\ result[d].via = "recheck"
        /\ result[c].desc = result[d].desc
        /\ nselect[s] = 1 /\ nfailed[s] = 0

\* C6: flush() empties the cache; a lookup of a cached space returns the
\* cached descriptor at once, with no select and no byte queued; a lookup of
\* a space that is not cached does not return at once; and between two
\* flushes a space has at most one select more than it has failed lookups.
C6_Step ==
    /\ epoch' # epoch => schema' = <<>>
    /\ nops' = nops + 1 /\ epoch' = epoch =>
          \E c \in Callers :
              /\ pc[c] = "idle" /\ op'[c] = "get_space"
              /\ IF space'[c] \in DOMAIN schema
                 THEN /\ pc'[c] = "idle"
                      /\ result'[c] = Desc(schema[space'[c]], "cache", epoch)
                      /\ nselect' = nselect /\ req_num' = req_num
                      /\ write_buf' = write_buf /\ schema' = schema
                 ELSE \/ nselect'[space'[c]] = nselect[space'[c]] + 1
                      \/ pc'[c] \in {"gs_lock", "conn_lock", "conn_open"}

C6_FlushThenLookup ==
    /\ [](\A s \in Spaces : nselect[s] <= 1 + nfailed[s])
    /\ [][C6_Step]_vars

\* C6's case: resolved, flushed, resolved again by one select, then served
\* from the cache
C6_Witness ==
    \E c \in Callers, s \in Spaces :
        /\ epoch = 1 /\ nextDesc = 3
        /\ Finished(c, "get_space") /\ space[c] = s
        /\ result[c] = Desc(schema[s], "cache", 1)
        /\ schema[s] = 2
        /\ nselect[s] = 1 /\ nfailed[s] = 0

\* C7: a dispatch makes at most RETRY_MAX_ATTEMPTS attempts, with one retry
\* notice per retry-needed response; after that many retry-needed responses
\* it fails with a DatabaseError of the code and message of the last response
\* it received; a response it returns is final and is the last one it awaited.
C7_RetryBudget ==
    \A c \in Callers :
        op[c] = "dispatch" =>
            /\ nwarn[c] <= RETRY_MAX_ATTEMPTS /\ nsent[c] <= RETRY_MAX_ATTEMPTS
            /\ attempt[c] = nwarn[c]
            /\ pc[c] = "await" => nwarn[c] < RETRY_MAX_ATTEMPTS
            /\ nwarn[c] = RETRY_MAX_ATTEMPTS =>
                  LET last == futures[waiter[c]].val IN
                  /\ pc[c] = "idle"
                  /\ last.type = "response" /\ last.completion_status = 1
                  /\ result[c] = DatabaseError(last.return_code,
                                               last.return_message)
            /\ pc[c] = "idle" /\ result[c].type = "response" =>
                  /\ result[c].completion_status # 1
                  /\ result[c] = futures[waiter[c]].val
                  /\ nwarn[c] < RETRY_MAX_ATTEMPTS

\* C7's case: the budget is exhausted
C7_Witness ==
    \E c \in Callers :
        /\ Finished(c, "dispatch") /\ nwarn[c] = RETRY_MAX_ATTEMPTS
        /\ result[c].type = "DatabaseError"
        /\ result[c].return_message = futures[waiter[c]].val.return_message
        /\ \E i \in DOMAIN futures :
              /\ i # waiter[c] /\ futures[i].key = sync[c]
              /\ futures[i].st = "result"
              /\ futures[i].val.return_message # result[c].return_message

\* C8 as stated: the bytes of one request are appended exactly once
C8_AppendedOnce == \A c \in Callers : nsent[c] <= 1

\* C8, amended: a retry-needed response makes the dispatch register a fresh
\* slot under the same sync, and every attempt appends the request's bytes
\* again: while a caller awaits, its request was appended once more than it
\* had retry-needed responses, and never more than RETRY_MAX_ATTEMPTS times.
C8_Step ==
    \A c \in Callers :
        nwarn'[c] = nwarn[c] + 1 =>
            /\ sync'[c] = sync[c]
            /\ sync[c] \in DOMAIN waiters'
            /\ waiters'[sync[c]] = Len(futures) + 1
            /\ futures' = Append(futures, Future(sync[c]))

C8_AppendedPerAttempt ==
    /\ [](\A c \in Callers :
            /\ nsent[c] <= RETRY_MAX_ATTEMPTS
            /\ pc[c] = "await" => nsent[c] = nwarn[c] + 1)
    /\ [][C8_Step]_vars

\* C8's case: a request awaiting after one retry-needed response
C8_Witness ==
    \E c \in Callers : pc[c] = "await" /\ nwarn[c] = 1 /\ nsent[c] = 2

\* C9: the frames of a read are decoded in order to the last one, and for
\* each sync among them: if the waiter table has it, its slot is resolved by
\* the first frame carrying it and the entry removed; if not, its frames
\* change nothing.  No other slot or entry changes and the loop goes on, so
\* every frame the server sent is decoded once the wire is empty.
C9_Step ==
    Len(decoded') > Len(decoded) =>
        LET k0 == Len(decoded)
            K == 1..(Len(decoded') - k0)
            new(k) == Response(decoded'[k0 + k])
            syncs == {new(k).sync : k \in K}
            First(s) == new(CHOOSE k \in K :
                               /\ new(k).sync = s
                               /\ \A j \in 1..(k - 1) : new(j).sync # s)
        IN /\ DOMAIN waiters' = DOMAIN waiters \ syncs
           /\ \A s \in DOMAIN waiters' : waiters'[s] = waiters[s]
           /\ DOMAIN futures' = DOMAIN futures
           /\ \A i \in DOMAIN futures :
                 IF \E s \in syncs \cap DOMAIN waiters : waiters[s] = i
                 THEN LET r == First(CHOOSE s \in syncs \cap DOMAIN waiters :
                                         waiters[s] = i) IN
                      futures'[i] =
                          IF r.return_code # 0
                          THEN set_exception(futures[i],
                                   DatabaseError(r.return_code, r.return_message))
                          ELSE set_result(futures[i], r)
                 ELSE futures'[i] = futures[i]
           /\ rpc' = "read"

C9_DiscardContinues ==
    /\ [](IsPrefix(decoded, emitted) /\ (wire = <<>> => decoded = emitted))
    /\ [][C9_Step]_vars

\* C9's case: a second frame for a sync whose waiter a final response had
\* removed was discarded, and the frame after it was delivered
C9_Witness ==
    /\ Len(decoded) = 3
    /\ Response(decoded[1]).completion_status # 1
    /\ Response(decoded[2]).sync = Response(decoded[1]).sync
    /\ Response(decoded[3]).sync # Response(decoded[1]).sync
    /\ \E i \in DOMAIN futures :
          /\ futures[i].key = Response(decoded[3]).sync
          /\ futures[i].n = 1
          /\ futures[i].val.return_message = 3

\* C10: the teardown body runs at most once for each transport opened, however
\* many closes are requested
C10_TeardownOnce == nteardown <= nopen

\* the Connection with a server that is free never to answer: no fairness
\* is asked of the server, every coroutine that can resume does
InitStall ==
    Constructed /\ limits = [ops |-> StallOps, frames |-> StallFrames]

NextStall ==
    \/ \E c \in Callers : Dispatch(c)
    \/ \E c \in Callers, s \in Spaces : GetSpace(c, s)
    \/ \E c \in Callers : Close(c)
    \/ \E c \in Callers : ConnectLocked(c)
    \/ \E c \in Callers : ConnectOpened(c)
    \/ \E c \in Callers : AfterConnect(c)
    \/ \E c \in Callers : GetSpaceLocked(c)
    \/ \E c \in Callers : SendResume(c)
    \/ \E c \in Callers : CloseLocked(c)
    \/ \E c \in Callers : CloseFinish(c)
    \/ ReaderGreeting
    \/ ReaderRead
    \/ WriterRun
    \/ WriterWritten
    \/ ServerSend

CloseFairness ==
    \A c \in Callers : WF_vars(CloseLocked(c)) /\ WF_vars(CloseFinish(c))

StallSpec == InitStall /\ [][NextStall]_vars /\ LoopFairness /\ CloseFairness

\* C11: a request the server never answers stalls its caller alone.  An
\* operation that waits for the lock while the lock's holder awaits a
\* response (the metadata select of a lookup) eventually gets the lock,
\* whether that response comes or not.
WaitsForLock(c) == pc[c] \in {"conn_lock", "gs_lock", "close_lock"}

C11_OthersComplete ==
    \A c \in Callers :
        (/\ WaitsForLock(c)
         /\ \E h \in Callers \ {c} : lockHolder = h /\ pc[h] = "await")
            ~> ~WaitsForLock(c)

\* C12: a response with a non-zero return code fails its caller at once.  A
\* slot is failed with a DatabaseError only by a decoded frame of the slot's
\* own sync, with that frame's code (non-zero) and message, and that frame
\* resolves no other slot; no slot gets such a response as a result; and the
\* caller awaiting the slot leaves _send_request with that very error, with no
\* fresh slot, no retry notice and no byte appended.
C12_Step ==
    \A c \in Callers :
        pc[c] = "await" /\ futures[waiter[c]].val.type = "DatabaseError" =>
            \/ /\ pc'[c] = "await" /\ waiter'[c] = waiter[c]
               /\ nwarn'[c] = nwarn[c] /\ nsent'[c] = nsent[c]
            \/ /\ pc'[c] = "idle"
               /\ result'[c] = futures[waiter[c]].val
               /\ waiters' = waiters /\ futures' = futures
               /\ nwarn' = nwarn /\ nsent' = nsent /\ write_buf' = write_buf

C12_ErrorImmediately ==
    /\ [](\A i \in DOMAIN futures :
            /\ futures[i].st = "result" => futures[i].val.return_code = 0
            /\ futures[i].val.type = "DatabaseError" =>
                 /\ futures[i].st = "exception" /\ futures[i].n = 1
                 /\ \E k \in DOMAIN decoded :
                      LET r == Response(decoded[k]) IN
                      /\ r.sync = futures[i].key
                      /\ r.return_code # 0
                      /\ r.return_code = futures[i].val.return_code
                      /\ r.return_message = futures[i].val.return_message
                 /\ \A j \in DOMAIN futures \ {i} :
                      Resolved(futures[j]) =>
                          futures[j].val.return_message
                              # futures[i].val.return_message)
    /\ [][C12_Step]_vars

\* C12's case: a caller failed on an error response that carried the
\* retry-needed status, with no retry, while another caller is still pending
C12_Witness ==
    \E c, d \in Callers :
        /\ Finished(c, "dispatch") /\ result[c].type = "DatabaseError"
        /\ futures[waiter[c]].st = "exception"
        /\ result[c] = futures[waiter[c]].val
        /\ nwarn[c] = 0 /\ nsent[c] = 1 /\ sync[c] \notin DOMAIN waiters
        /\ \E k \in DOMAIN decoded :
              /\ Response(decoded[k]).return_message = result[c].return_message
              /\ Response(decoded[k]).completion_status = 1
        /\ pc[d] = "await" /\ futures[waiter[d]].st = "pending"

\* callers that connect, dispatch and look spaces up on a Connection that
\* nothing tears down
InitConnect ==
    Constructed /\ limits = [ops |-> ConnectOps, frames |-> ConnectFrames]

NextConnect ==
    \/ \E c \in Callers : Connect(c)
    \/ \E c \in Callers : Dispatch(c)
    \/ \E c \in Callers, s \in Spaces : GetSpace(c, s)
    \/ \E c \in Callers : ConnectLocked(c)
    \/ \E c \in Callers : ConnectOpened(c)
    \/ \E c \in Callers : AfterConnect(c)
    \/ \E c \in Callers : GetSpaceLocked(c)
    \/ \E c \in Callers : SendResume(c)
    \/ ReaderGreeting
    \/ ReaderRead
    \/ WriterRun
    \/ WriterWritten
    \/ ServerSend

ConnectSpec == InitConnect /\ [][NextConnect]_vars

\* C13: concurrent connects open the transport once.  With no teardown the
\* transport is opened at most once, and a connected Connection has one open
\* transport and both loop tasks; the transport is only opened on a
\* disconnected Connection without loop tasks; and a connect() that is handed
\* the lock on a connected Connection returns and changes nothing else.
C13_Step ==
    /\ nopen' # nopen =>
          /\ ~connected /\ ~reader_task /\ ~writer_task /\ stream = "None"
          /\ nopen' = nopen + 1
          /\ connected' /\ reader_task' /\ writer_task' /\ stream' = "open"
          /\ rpc' = "greeting" /\ wpc' = "wait"
    /\ \A c \in Callers :
          pc[c] = "conn_lock" /\ pc'[c] # "conn_lock" /\ connected =>
              /\ pc'[c] \in {"idle", "conn_ret"}
              /\ lockHolder' # c
              /\ UNCHANGED <<nopen, connected, stream, rpc, wpc, reader_task,
                             writer_task, write_buf, write_event, wire, buf>>

C13_OpenedOnce ==
    /\ [](/\ nopen <= 1
          /\ connected => nopen = 1 /\ reader_task /\ writer_task)
    /\ [][C13_Step]_vars

\* C13's case: two callers called connect() on the disconnected Connection;
\* one opened the transport, the other got the lock afterwards and returned
C13_Witness ==
    \E c, d \in Callers :
        /\ c # d /\ pc[c] = "conn_ret" /\ pc[d] = "conn_ret"
        /\ connected /\ nopen = 1 /\ lockHolder = Nobody

\* C14: the transport gets the requests' bytes in the order of their
\* appends.  What was written is a prefix of what was appended on this
\* connection; while the Writer task exists the appended bytes are exactly
\* the written ones, then the ones of the write in flight, then the buffered
\* ones; and a write starts only from the waiting Writer with no write in
\* flight, taking the whole buffer.
C14_Step ==
    /\ to_write' # to_write /\ to_write' # <<>> =>
          /\ wpc = "wait" /\ to_write = <<>>
          /\ to_write' = write_buf /\ write_buf' = <<>> /\ wpc' = "writing"
    /\ written' # written /\ nopen' = nopen =>
          /\ wpc = "writing" /\ written' = written \o to_write
          /\ to_write' = <<>>

C14_WrittenInOrder ==
    /\ [](/\ IsPrefix(written, appended)
          /\ writer_task => appended = written \o to_write \o write_buf
          /\ wpc = "writing" <=> to_write # <<>>)
    /\ [][C14_Step]_vars

\* C14's case: one request written, a second one in flight, and a third one
\* appended by a dispatcher while the Writer is inside its write
C14_Witness ==
    /\ wpc = "writing" /\ written # <<>> /\ to_write # <<>> /\ write_buf # <<>>
    /\ appended = written \o to_write \o write_buf

\* C15: the waiter of a request is in the table from the construction of
\* the request to the append of its bytes: a dispatch that is inside the
\* connect() of _send_request, its request constructed and not yet appended,
\* has the pending slot it registered in the table under its sync.
C15_WaiterKept ==
    \A c \in Callers :
        pc[c] \in {"conn_lock", "conn_open", "conn_ret"} /\ ctx[c] = "send" =>
            /\ sync[c] \in DOMAIN waiters
            /\ futures[waiters[sync[c]]].st = "pending"

\* callers that dispatch often enough for req_num to pass its ceiling
InitWrap ==
    Constructed /\ limits = [ops |-> WrapOps, frames |-> WrapFrames]

NextWrap ==
    \/ \E c \in Callers : Dispatch(c)
    \/ \E c \in Callers : ConnectLocked(c)
    \/ \E c \in Callers : ConnectOpened(c)
    \/ \E c \in Callers : AfterConnect(c)
    \/ \E c \in Callers : SendResume(c)
    \/ ReaderGreeting
    \/ ReaderRead
    \/ WriterRun
    \/ WriterWritten
    \/ ServerSend

WrapSpec == InitWrap /\ [][NextWrap]_vars

\* C16: a new request never gets the sync of a pending one: two callers that
\* await unresolved slots await them under different syncs, and the table
\* maps the sync of each to the slot it awaits.
C16_UniquePending ==
    \A c \in Callers :
        pc[c] = "await" /\ futures[waiter[c]].st = "pending" =>
            /\ sync[c] \in DOMAIN waiters /\ waiters[sync[c]] = waiter[c]
            /\ \A d \in Callers \ {c} :
                  pc[d] = "await" /\ futures[waiter[d]].st = "pending" =>
                      sync[d] # sync[c]

\* C17: the schema cache outlives the connection.  The cache changes only
\* by flush(), which empties it, and by a lookup whose select returned, which
\* adds its space; no step that connects, disconnects or tears down changes
\* it; and a lookup of a cached space returns the cached descriptor at once,
\* connected or not, without connecting, selecting or taking the lock.
C17_Step ==
    /\ schema' # schema =>
          \/ epoch' = epoch + 1 /\ schema' = <<>>
          \/ /\ epoch' = epoch
             /\ \E c \in Callers :
                   /\ pc[c] = "await" /\ op[c] = "get_space" /\ pc'[c] = "idle"
                   /\ result'[c].via = "select"
                   /\ schema' = (space[c] :> result'[c].desc) @@ schema
    /\ connected' # connected \/ nopen' # nopen \/ nteardown' # nteardown =>
          schema' = schema
    /\ \A c \in Callers :
          /\ pc[c] = "idle" /\ pc'[c] = "idle" /\ op'[c] = "get_space"
          /\ nops' = nops + 1 /\ epoch' = epoch
          /\ op'[c] # op[c] \/ result'[c] # result[c] \/ space'[c] # space[c]
          /\ space'[c] \in DOMAIN schema
          => /\ result'[c] = Desc(schema[space'[c]], "cache", epoch)
             /\ UNCHANGED <<schema, connected, nopen, nselect, req_num, waiters,
                            write_buf, lockHolder, lockQueue>>

C17_CacheOutlivesConnection == [][C17_Step]_vars

\* C17's case: a space cached on the first connection is served from the
\* cache after that connection was torn down and a second one opened
C17_Witness ==
    \E c \in Callers :
        /\ Finished(c, "get_space") /\ result[c].via = "cache"
        /\ space[c] \in DOMAIN schema /\ result[c].desc = schema[space[c]]
        /\ nopen = 2 /\ connected /\ nselect[space[c]] = 1 /\ epoch = 0

\* C18: the Writer loses no signal: while the Writer task exists, the
\* write-ready event is never clear with bytes in the outbound buffer.
C18_NoLostSignal ==
    writer_task /\ write_event = "clear" => write_buf = <<>>

\* C19: no coroutine waits for the lock it holds: the holder of the lock is
\* never in the lock's queue.
C19_NoSelfWait ==
    \A i \in DOMAIN lockQueue : lockQueue[i] # lockHolder

\* C20: _send_request leaves no waiter behind: after a dispatch has returned
\* a response or raised a DatabaseError, the table has no entry for the sync
\* of its request.
C20_NoWaiterLeft ==
    \A c \in Callers :
        Finished(c, "dispatch") /\ result[c].type \in {"response", "DatabaseError"}
            => sync[c] \notin DOMAIN waiters

====
